---- MODULE Spec2Model ----
(***************************************************************************)
(* Model of src/library/schema.py: the pydantic models Maintainer, Git,    *)
(* Build, Metadata, Run and Manifest, Manifest validation of a raw parsed  *)
(* record, attribute assignment on the validated object, and JSON-mode     *)
(* serialization followed by re-validation.                                *)
(*                                                                         *)
(* Values are tagged records.  A raw (parsed YAML/JSON) value is one of    *)
(*   Str, Num, Flt, Null, Lst (sequence of values), Map (function from     *)
(*   keys to values).                                                      *)
(* A validated value may also be Url (AnyUrl), Enm (a str-Enum member) or  *)
(* Mdl (a BaseModel instance, a function from field name to value).        *)
(***************************************************************************)
EXTENDS Integers, Sequences, FiniteSets, TLC

VARIABLES record, pc, result, manifest, reparsed

vars == <<record, pc, result, manifest, reparsed>>

---------------------------------------------------------------------------
(* Values *)

Str(s) == [t |-> "str", v |-> s]
Num(s) == [t |-> "int", v |-> s]
Flt(s) == [t |-> "float", v |-> s]
Null == [t |-> "null", v |-> ""]
Lst(q) == [t |-> "list", l |-> q]
Map(f) == [t |-> "map", m |-> f]
Url(s) == [t |-> "url", v |-> s]
Enm(s) == [t |-> "enum", v |-> s]
Mdl(f) == [t |-> "model", f |-> f]

EmptyMap == [k \in {} |-> Null]

\* dict.get(key): the value, or None when the key is missing.
Get(data, key) == IF key \in DOMAIN data.m THEN data.m[key] ELSE Null

---------------------------------------------------------------------------
(* Enumerations *)

Architecture == {"amd64", "arm32v5", "arm32v6", "arm32v7", "arm64v8", "windows-amd64"}

Builder == {"buildkit", "classic", "oci-import"}

---------------------------------------------------------------------------
(* Validation results: the validated value, the collected errors (each a   *)
(* location and a pydantic error type), and the exception, if any, that    *)
(* is not a validation error and so propagates to the caller.              *)

Ok(val) == [val |-> val, errs |-> {}, exc |-> ""]
Err(loc, type) == [val |-> Null, errs |-> {[loc |-> loc, type |-> type]}, exc |-> ""]
Raise(e) == [val |-> Null, errs |-> {}, exc |-> e]

\* List indices in error locations are 0-based.
Idx(i) == <<"0", "1", "2", "3">>[i]

\* str: only a str is accepted (numbers are not coerced to str).
StrField(loc, x) == IF x.t = "str" THEN Ok(x) ELSE Err(loc, "string_type")

\* Optional[str]
OptStrField(loc, x) == IF x.t = "null" THEN Ok(Null) ELSE StrField(loc, x)

\* float(): what a number or a numeric string parses to.
FloatOf == ("0.2" :> "0.2") @@ ("0.3" :> "0.3") @@ ("1" :> "1.0") @@ ("1.0" :> "1.0")

\* float: a float, an int, or a str that parses as a number.
FloatField(loc, x) ==
    IF x.t \in {"float", "int"} THEN Ok(Flt(FloatOf[x.v]))
    ELSE IF x.t = "str"
         THEN IF x.v \in DOMAIN FloatOf THEN Ok(Flt(FloatOf[x.v]))
              ELSE Err(loc, "float_parsing")
         ELSE Err(loc, "float_type")

\* The normal form of the text of a URL: scheme and host in lower case, an
\* empty path written "/".  Texts outside the domain do not parse as a URL.
UrlNormalForm ==
    ("https://example.com/r.git" :> "https://example.com/r.git")
    @@ ("HTTPS://Example.COM/r.git" :> "https://example.com/r.git")
    @@ ("https://example.com" :> "https://example.com/")
    @@ ("https://example.com/" :> "https://example.com/")

\* AnyUrl
UrlField(loc, x) ==
    IF x.t = "str"
    THEN IF x.v \in DOMAIN UrlNormalForm THEN Ok(Url(UrlNormalForm[x.v]))
         ELSE Err(loc, "url_parsing")
    ELSE Err(loc, "url_type")

\* A str-Enum field: the value of one of the members.
ArchitectureField(loc, x) ==
    IF x.t = "str" /\ x.v \in Architecture THEN Ok(Enm(x.v)) ELSE Err(loc, "enum")

\* The elements of a list; none when the value is no list.
Elems(x) == IF x.t = "list" THEN x.l ELSE <<>>

\* list[...]: rs are the results of validating the elements, the element i
\* at loc.<i-1>; all their errors are collected.
ListField(loc, x, rs) ==
    IF x.t # "list" THEN Err(loc, "list_type")
    ELSE LET errs == UNION {rs[i].errs : i \in DOMAIN rs}
         IN  IF errs = {} THEN Ok(Lst([i \in DOMAIN rs |-> rs[i].val]))
             ELSE [val |-> Null, errs |-> errs, exc |-> ""]

ListOfStr(loc, x) ==
    ListField(loc, x, [i \in DOMAIN Elems(x) |-> StrField(loc \o <<Idx(i)>>, Elems(x)[i])])

ListOfArchitecture(loc, x) ==
    ListField(loc, x,
              [i \in DOMAIN Elems(x) |-> ArchitectureField(loc \o <<Idx(i)>>, Elems(x)[i])])

\* Optional[dict[str, str]]
OptDictField(loc, x) ==
    IF x.t = "null" THEN Ok(Null)
    ELSE IF x.t # "map" THEN Err(loc, "dict_type")
    ELSE LET errs == {[loc |-> loc \o <<k>>, type |-> "string_type"] :
                          k \in {j \in DOMAIN x.m : x.m[j].t # "str"}}
         IN  IF errs = {} THEN Ok(x) ELSE [val |-> Null, errs |-> errs, exc |-> ""]

\* One declared field of a model: validated, the result of validating the
\* input value, when the key is present; else a "missing" error for a
\* required field (Field(...)), else the default.
Field(data, loc, key, required, default, validated) ==
    IF key \in DOMAIN data.m THEN validated
    ELSE IF required THEN Err(loc \o <<key>>, "missing")
    ELSE Ok(default)

\* Keys that are no declared field: an error each under extra="forbid",
\* dropped otherwise (pydantic's default, extra="ignore").
Extra(loc, data, declared, forbid) ==
    IF forbid
    THEN {[loc |-> loc \o <<k>>, type |-> "extra_forbidden"] : k \in DOMAIN data.m \ declared}
    ELSE {}

\* The model instance built from its fields' results, or their errors.
Model(fields, extra) ==
    LET errs == UNION {fields[k].errs : k \in DOMAIN fields} \cup extra
    IN  IF \E k \in DOMAIN fields : fields[k].exc # ""
        THEN Raise(fields[CHOOSE k \in DOMAIN fields : fields[k].exc # ""].exc)
        ELSE IF errs = {} THEN Ok(Mdl([k \in DOMAIN fields |-> fields[k].val]))
        ELSE [val |-> Null, errs |-> errs, exc |-> ""]

---------------------------------------------------------------------------
(* The models of schema.py.  Each takes the location of the value in the   *)
(* input and the raw value, and gives a validation result.                 *)

\* A model's input must be a mapping.
NotAMapping(loc) == Err(loc, "model_type")

Maintainer(loc, data) ==
    IF data.t # "map" THEN NotAMapping(loc)
    ELSE Model([name |-> Field(data, loc, "name", TRUE, Null,
                      StrField(loc \o <<"name">>, Get(data, "name"))),
                email |-> Field(data, loc, "email", TRUE, Null,
                      StrField(loc \o <<"email">>, Get(data, "email"))),
                github |-> Field(data, loc, "github", FALSE, Null,
                      OptStrField(loc \o <<"github">>, Get(data, "github"))),
                gitlab |-> Field(data, loc, "gitlab", FALSE, Null,
                      OptStrField(loc \o <<"gitlab">>, Get(data, "gitlab")))],
               Extra(loc, data, {"name", "email", "github", "gitlab"}, TRUE))

\* Git._sanitize_checkout with the second test left out.
_sanitize_checkout_either(data) ==
    IF data.t # "map" THEN [exc |-> "AttributeError", data |-> data]
    ELSE IF Get(data, "sha").t = "null" /\ Get(data, "tag").t = "null"
         THEN [exc |-> "ValueError", data |-> data]
    ELSE [exc |-> "", data |-> data]

\* Git._sanitize_checkout testing for the keys instead of for their values.
_sanitize_checkout_keys(data) ==
    IF data.t # "map" THEN [exc |-> "AttributeError", data |-> data]
    ELSE IF "sha" \notin DOMAIN data.m /\ "tag" \notin DOMAIN data.m
         THEN [exc |-> "ValueError", data |-> data]
    ELSE IF "sha" \in DOMAIN data.m /\ "tag" \in DOMAIN data.m
         THEN [exc |-> "ValueError", data |-> data]
    ELSE [exc |-> "", data |-> data]

\* The mode="before" validator of Git: it is handed the raw input, whatever
\* its type.  data.get exists on a mapping only; on anything else the call
\* raises AttributeError, which pydantic does not turn into a validation
\* error (it does so for ValueError and AssertionError only).
_sanitize_checkout(data) ==
    IF data.t # "map" THEN [exc |-> "AttributeError", data |-> data]
    ELSE IF Get(data, "sha").t = "null" /\ Get(data, "tag").t = "null"
         THEN [exc |-> "ValueError", data |-> data]
    ELSE IF Get(data, "sha").t # "null" /\ Get(data, "tag").t # "null"
         THEN [exc |-> "ValueError", data |-> data]
    ELSE [exc |-> "", data |-> data]

\* The default of Git.fetch naming another branch.
FetchDefault_master == Str("refs/heads/master")

FetchDefault == Str("refs/heads/main")

Git(loc, data) ==
    LET before == _sanitize_checkout(data)
        d == before.data
    IN  IF before.exc = "AttributeError" THEN Raise("AttributeError")
        ELSE IF before.exc = "ValueError" THEN Err(loc, "value_error")
        ELSE Model([repo |-> Field(d, loc, "repo", TRUE, Null,
                      UrlField(loc \o <<"repo">>, Get(d, "repo"))),
                    fetch |-> Field(d, loc, "fetch", FALSE, FetchDefault,
                      StrField(loc \o <<"fetch">>, Get(d, "fetch"))),
                    sha |-> Field(d, loc, "sha", FALSE, Null,
                      OptStrField(loc \o <<"sha">>, Get(d, "sha"))),
                    tag |-> Field(d, loc, "tag", FALSE, Null,
                      OptStrField(loc \o <<"tag">>, Get(d, "tag")))],
                   Extra(loc, d, {"repo", "fetch", "sha", "tag"}, TRUE))

Run(loc, data) ==
    IF data.t # "map" THEN NotAMapping(loc)
    ELSE Model([cmd |-> Field(data, loc, "cmd", FALSE, Null,
                      OptStrField(loc \o <<"cmd">>, Get(data, "cmd")))],
               Extra(loc, data, {"cmd"}, FALSE))

\* Optional[Run]
OptRun(loc, x) == IF x.t = "null" THEN Ok(Null) ELSE Run(loc, x)

\* The defaults of Build.  The default of builder is the enum member
\* Builder.BUILDKIT, which a default, not being validated, stays.
PathDefault == Str(".")

DockerfileDefault == Str("Dockerfile")

ContextDefault == Str(".")

BuilderDefault == Enm("buildkit")

PlatformsDefault == Lst(<<Enm("amd64")>>)

BuildFields ==
    {"path", "dockerfile", "context", "builder", "platforms", "tags", "args",
     "annotations", "labels", "target", "test"}

Build(loc, data) ==
    IF data.t # "map" THEN NotAMapping(loc)
    ELSE Model([path |-> Field(data, loc, "path", FALSE, PathDefault,
                      StrField(loc \o <<"path">>, Get(data, "path"))),
                dockerfile |-> Field(data, loc, "dockerfile", FALSE, DockerfileDefault,
                      StrField(loc \o <<"dockerfile">>, Get(data, "dockerfile"))),
                context |-> Field(data, loc, "context", FALSE, ContextDefault,
                      StrField(loc \o <<"context">>, Get(data, "context"))),
                builder |-> Field(data, loc, "builder", FALSE, BuilderDefault,
                      StrField(loc \o <<"builder">>, Get(data, "builder"))),
                platforms |-> Field(data, loc, "platforms", FALSE, PlatformsDefault,
                      ListOfArchitecture(loc \o <<"platforms">>, Get(data, "platforms"))),
                tags |-> Field(data, loc, "tags", TRUE, Null,
                      ListOfStr(loc \o <<"tags">>, Get(data, "tags"))),
                args |-> Field(data, loc, "args", FALSE, Null,
                      OptDictField(loc \o <<"args">>, Get(data, "args"))),
                annotations |-> Field(data, loc, "annotations", FALSE, Null,
                      OptDictField(loc \o <<"annotations">>, Get(data, "annotations"))),
                labels |-> Field(data, loc, "labels", FALSE, Null,
                      OptDictField(loc \o <<"labels">>, Get(data, "labels"))),
                target |-> Field(data, loc, "target", FALSE, Null,
                      OptStrField(loc \o <<"target">>, Get(data, "target"))),
                test |-> Field(data, loc, "test", FALSE, Null,
                      OptRun(loc \o <<"test">>, Get(data, "test")))],
               Extra(loc, data, BuildFields, TRUE))

Metadata(loc, data) ==
    IF data.t # "map" THEN NotAMapping(loc)
    ELSE Model([identifier |-> Field(data, loc, "identifier", TRUE, Null,
                      StrField(loc \o <<"identifier">>, Get(data, "identifier"))),
                project |-> Field(data, loc, "project", TRUE, Null,
                      StrField(loc \o <<"project">>, Get(data, "project")))],
               Extra(loc, data, {"identifier", "project"}, FALSE))

ListOfMaintainer(loc, x) ==
    ListField(loc, x, [i \in DOMAIN Elems(x) |-> Maintainer(loc \o <<Idx(i)>>, Elems(x)[i])])

VersionDefault == Flt("0.2")

ManifestFields == {"version", "name", "maintainers", "git", "build", "metadata"}

Manifest(loc, data) ==
    IF data.t # "map" THEN NotAMapping(loc)
    ELSE Model([version |-> Field(data, loc, "version", FALSE, VersionDefault,
                      FloatField(loc \o <<"version">>, Get(data, "version"))),
                name |-> Field(data, loc, "name", TRUE, Null,
                      StrField(loc \o <<"name">>, Get(data, "name"))),
                maintainers |-> Field(data, loc, "maintainers", TRUE, Null,
                      ListOfMaintainer(loc \o <<"maintainers">>, Get(data, "maintainers"))),
                git |-> Field(data, loc, "git", TRUE, Null,
                      Git(loc \o <<"git">>, Get(data, "git"))),
                build |-> Field(data, loc, "build", TRUE, Null,
                      Build(loc \o <<"build">>, Get(data, "build"))),
                metadata |-> Field(data, loc, "metadata", TRUE, Null,
                      Metadata(loc \o <<"metadata">>, Get(data, "metadata")))],
               Extra(loc, data, ManifestFields, FALSE))

\* Manifest.model_validate(record) as its caller sees it: a Manifest, a
\* ValidationError with its errors, or another exception.
model_validate(data) ==
    LET r == Manifest(<<>>, data)
    IN  IF r.exc # "" THEN [kind |-> "exception", value |-> Null, errors |-> {}, exc |-> r.exc]
        ELSE IF r.errs # {} THEN [kind |-> "failure", value |-> Null, errors |-> r.errs, exc |-> ""]
        ELSE [kind |-> "manifest", value |-> r.val, errors |-> {}, exc |-> ""]

\* model_dump(mode="json"): every field written out, None as null, a URL and
\* an enum member as their text, a model as a mapping.
RECURSIVE model_dump(_)
model_dump(x) ==
    IF x.t \in {"url", "enum"} THEN Str(x.v)
    ELSE IF x.t = "list" THEN Lst([i \in 1..Len(x.l) |-> model_dump(x.l[i])])
    ELSE IF x.t = "model" THEN Map([k \in DOMAIN x.f |-> model_dump(x.f[k])])
    ELSE IF x.t = "map" THEN Map([k \in DOMAIN x.m |-> model_dump(x.m[k])])
    ELSE x

\* Python's == on validated values: BaseModel.__eq__ compares the fields,
\* and a member of a str-Enum equals the str of its value.
RECURSIVE PyForm(_)
PyForm(x) ==
    IF x.t = "enum" THEN Str(x.v)
    ELSE IF x.t = "list" THEN Lst([i \in 1..Len(x.l) |-> PyForm(x.l[i])])
    ELSE IF x.t = "model" THEN Mdl([k \in DOMAIN x.f |-> PyForm(x.f[k])])
    ELSE IF x.t = "map" THEN Map([k \in DOMAIN x.m |-> PyForm(x.m[k])])
    ELSE x

PyEq(a, b) == PyForm(a) = PyForm(b)

---------------------------------------------------------------------------
(* Input records.  A record is the valid record BaseRecord changed in at   *)
(* most MaxDeviations places; a place is a key of the manifest, of its git *)
(* mapping or of its build mapping, and a change gives the key another     *)
(* value or leaves it out (Absent).                                        *)

MaxDeviations == 3

Absent == [t |-> "absent", v |-> ""]

\* The mapping holding the keys whose slot is not Absent.
MkMap(slots) == Map([k \in {j \in DOMAIN slots : slots[j].t # "absent"} |-> slots[k]])

\* The slot functions over keys that differ from base at exactly n keys,
\* each of these taking one of the key's alternatives.
RECURSIVE Deviate(_, _, _, _)
Deviate(keys, base, alts, n) ==
    IF n > Cardinality(keys) THEN {}
    ELSE IF keys = {} THEN {EmptyMap}
    ELSE LET k == CHOOSE j \in keys : TRUE
             rest == keys \ {k}
         IN  {(k :> base[k]) @@ r : r \in Deviate(rest, base, alts, n)}
             \cup (IF n > 0
                   THEN {(k :> a) @@ r : a \in alts[k], r \in Deviate(rest, base, alts, n - 1)}
                   ELSE {})

GitBase ==
    [repo |-> Str("https://example.com/r.git"), fetch |-> Absent, sha |-> Absent,
     tag |-> Str("v1.0.0"), branch |-> Absent]

GitAlts ==
    [repo |-> {Absent, Str("https://example.com"), Str("HTTPS://Example.COM/r.git"),
               Str("not a url")},
     fetch |-> {Str("refs/tags/v1.0.0"), Num("1")},
     sha |-> {Null, Str("abc123"), Num("123")},
     tag |-> {Absent, Null, Num("1")},
     branch |-> {Str("main")}]

\* The git values that cost exactly n changes; one that is no mapping costs 1.
GitInputs ==
    [n \in 1..MaxDeviations |->
        {MkMap(s) : s \in Deviate(DOMAIN GitBase, GitBase, GitAlts, n)}
        \cup (IF n = 1 THEN {Str("https://example.com/r.git"), Lst(<<>>), Num("7"), Null}
              ELSE {})]

BuildBase ==
    [path |-> Absent, dockerfile |-> Absent, context |-> Absent, builder |-> Absent,
     platforms |-> Absent, tags |-> Lst(<<Str("latest")>>), args |-> Absent,
     annotations |-> Absent, labels |-> Absent, target |-> Absent, test |-> Absent,
     squash |-> Absent]

BuildAlts ==
    [path |-> {Str("images/astroml")},
     dockerfile |-> {Str("Dockerfile-alternate")},
     context |-> {Str("../")},
     builder |-> {Str("classic"), Str("docker-legacy"), Num("1")},
     platforms |-> {Lst(<<>>), Lst(<<Str("arm64v8")>>), Lst(<<Str("amd64"), Str("riscv64")>>),
                    Str("amd64")},
     tags |-> {Absent, Lst(<<>>), Lst(<<Str("latest"), Str("1.0")>>), Lst(<<Num("1")>>),
               Str("latest")},
     args |-> {Null, Map("VERSION" :> Str("1")), Map("VERSION" :> Num("1"))},
     annotations |-> {Map("org.opencontainers.image.title" :> Str("astroml"))},
     labels |-> {Null},
     target |-> {Str("runtime")},
     test |-> {Null, Map("cmd" :> Str("bash -c 'echo hello world'")), Map(EmptyMap),
               Map(("cmd" :> Str("true")) @@ ("timeout" :> Num("1"))), Str("true")},
     squash |-> {Str("yes")}]

BuildInputs ==
    [n \in 1..MaxDeviations |->
        {MkMap(s) : s \in Deviate(DOMAIN BuildBase, BuildBase, BuildAlts, n)}
        \cup (IF n = 1 THEN {Str("Dockerfile")} ELSE {})]

MaintainerAB == ("name" :> Str("A B")) @@ ("email" :> Str("a@b.org"))

MaintainersInputs ==
    {Absent, Lst(<<>>), Str("A B"),
     Lst(<<Map(MaintainerAB), Map(MaintainerAB @@ ("github" :> Str("ab")))>>),
     Lst(<<Map(MaintainerAB @@ ("gitlab" :> Null))>>),
     Lst(<<Map("name" :> Str("A B"))>>),
     Lst(<<Map(MaintainerAB), Map("email" :> Str("c@d.org"))>>),
     Lst(<<Map(MaintainerAB @@ ("orcid" :> Str("0000-0001")))>>)}

MetadataBase == ("identifier" :> Str("x1")) @@ ("project" :> Str("srcnet"))

MetadataInputs ==
    {Absent, Str("x1"), Map("identifier" :> Str("x1")), Map("project" :> Str("srcnet")),
     Map(MetadataBase @@ ("doi" :> Str("10.1/x"))),
     Map(("identifier" :> Num("1")) @@ ("project" :> Str("srcnet")))}

BaseRecord ==
    [version |-> Absent, name |-> Str("astroml"), maintainers |-> Lst(<<Map(MaintainerAB)>>),
     git |-> MkMap(GitBase), build |-> MkMap(BuildBase), metadata |-> Map(MetadataBase),
     owner |-> Absent]

\* The values of a key of the manifest that cost exactly n changes.
Inputs(key, n) ==
    IF n = 0 THEN {BaseRecord[key]}
    ELSE IF key = "git" THEN GitInputs[n]
    ELSE IF key = "build" THEN BuildInputs[n]
    ELSE IF n > 1 THEN {}
    ELSE IF key = "version" THEN {Flt("0.3"), Num("1"), Str("0.3"), Str("latest")}
    ELSE IF key = "name" THEN {Absent, Num("42")}
    ELSE IF key = "maintainers" THEN MaintainersInputs
    ELSE IF key = "metadata" THEN MetadataInputs
    ELSE {Str("team-x")}

\* How many changes each key of the manifest takes: MaxDeviations in all,
\* at most.
Costs ==
    {c \in [DOMAIN BaseRecord -> 0..MaxDeviations] :
        c["version"] + c["name"] + c["maintainers"] + c["git"] + c["build"]
            + c["metadata"] + c["owner"] <= MaxDeviations}

---------------------------------------------------------------------------
(* The program: a record is loaded, validated once, the Manifest it gives  *)
(* may have attributes assigned, and may be dumped and validated again.    *)

NoResult == [kind |-> "none", value |-> Null, errors |-> {}, exc |-> ""]

Init ==
    /\ \E c \in Costs :
          \E version \in Inputs("version", c["version"]), name \in Inputs("name", c["name"]),
             maintainers \in Inputs("maintainers", c["maintainers"]),
             git \in Inputs("git", c["git"]), build \in Inputs("build", c["build"]),
             metadata \in Inputs("metadata", c["metadata"]),
             owner \in Inputs("owner", c["owner"]) :
                record = MkMap([version |-> version, name |-> name,
                                maintainers |-> maintainers, git |-> git, build |-> build,
                                metadata |-> metadata, owner |-> owner])
    /\ pc = "loaded"
    /\ result = NoResult
    /\ manifest = Null
    /\ reparsed = NoResult

\* Manifest.model_validate(record)
Validate ==
    /\ pc = "loaded"
    /\ result' = model_validate(record)
    /\ manifest' = result'.value
    /\ pc' = "validated"
    /\ UNCHANGED <<record, reparsed>>

\* Attribute assignments a holder of the Manifest can make.
Assignments ==
    {[obj |-> "git", attr |-> "sha", value |-> Str("deadbeef")],
     [obj |-> "git", attr |-> "sha", value |-> Null],
     [obj |-> "git", attr |-> "tag", value |-> Str("v2.0.0")],
     [obj |-> "git", attr |-> "tag", value |-> Null],
     [obj |-> "build", attr |-> "tags", value |-> Lst(<<>>)]}

\* setattr on a model whose model_config sets neither frozen nor
\* validate_assignment: the attribute is stored, nothing is validated.
setattr(obj, attr, value) == Mdl([obj.f EXCEPT ![attr] = value])

\* manifest.<obj>.<attr> = value
Assign(a) ==
    /\ pc = "validated"
    /\ manifest.t = "model"
    /\ manifest' = setattr(manifest, a.obj, setattr(manifest.f[a.obj], a.attr, a.value))
    /\ manifest' # manifest
    /\ UNCHANGED <<record, pc, result, reparsed>>

\* Manifest.model_validate(manifest.model_dump(mode="json"))
Revalidate ==
    /\ pc = "validated"
    /\ manifest.t = "model"
    /\ reparsed' = model_validate(model_dump(manifest))
    /\ pc' = "revalidated"
    /\ UNCHANGED <<record, result, manifest>>

Next ==
    \/ Validate
    \/ \E a \in Assignments : Assign(a)
    \/ Revalidate

Spec == Init /\ [][Next]_vars

---------------------------------------------------------------------------
(* What the claims speak of, read off the input record and the result.     *)

Has(x, key) == x.t = "map" /\ key \in DOMAIN x.m

\* A key is supplied when it is present with a value other than null.
Supplied(x, key) == Has(x, key) /\ x.m[key].t # "null"

Validated == pc # "loaded"

Failed(loc, type) == result.kind = "failure" /\ [loc |-> loc, type |-> type] \in result.errors

\* The errors reported at or below a key of the manifest.
ErrorsUnder(key) == {e \in result.errors : Len(e.loc) > 0 /\ e.loc[1] = key}

\* A git record that is valid but for the sha/tag rule.
GitOtherwiseValid(g) ==
    /\ g.t = "map"
    /\ DOMAIN g.m \subseteq {"repo", "fetch", "sha", "tag"}
    /\ Has(g, "repo") /\ g.m["repo"].t = "str"
    /\ g.m["repo"].v \in {"https://example.com/r.git", "HTTPS://Example.COM/r.git",
                          "https://example.com"}
    /\ Has(g, "fetch") => g.m["fetch"].t = "str"
    /\ Has(g, "sha") => g.m["sha"].t \in {"str", "null"}
    /\ Has(g, "tag") => g.m["tag"].t \in {"str", "null"}

\* C1: a git record that is otherwise valid fails validation (a value_error
\* at git) when both sha and tag are supplied and when neither is; when
\* exactly one is supplied no error is reported at or below git, the call
\* raises nothing, and a record with no error elsewhere gives a Manifest
\* whose git holds the supplied sha or tag.
C1_ExactlyOneOfShaTag ==
    (Validated /\ Has(record, "git") /\ GitOtherwiseValid(record.m["git"])) =>
        LET g == record.m["git"]
            sha == Supplied(g, "sha")
            tag == Supplied(g, "tag")
        IN  /\ (sha = tag) => Failed(<<"git">>, "value_error")
            /\ (sha # tag) =>
                  /\ ErrorsUnder("git") = {}
                  /\ result.kind \in {"manifest", "failure"}
                  /\ result.kind = "manifest" =>
                        /\ result.value.f["git"].f["sha"] = Get(g, "sha")
                        /\ result.value.f["git"].f["tag"] = Get(g, "tag")

C1_Witness ==
    /\ pc = "validated"
    /\ Has(record, "git") /\ GitOtherwiseValid(record.m["git"])
    /\ Supplied(record.m["git"], "sha") /\ ~Supplied(record.m["git"], "tag")
    /\ result.kind = "manifest"
    /\ result.value.f["git"].f["sha"] = Str("abc123")
    /\ result.value.f["git"].f["tag"] = Null

\* The keys declared for each level of the record.
DeclaredKeys ==
    [manifest |-> {"version", "name", "maintainers", "git", "build", "metadata"},
     maintainer |-> {"name", "email", "github", "gitlab"},
     git |-> {"repo", "fetch", "sha", "tag"},
     build |-> {"path", "dockerfile", "context", "builder", "platforms", "tags", "args",
                "annotations", "labels", "target", "test"},
     test |-> {"cmd"},
     metadata |-> {"identifier", "project"}]

UndeclaredIn(x, loc, level) ==
    IF x.t = "map" THEN {loc \o <<k>> : k \in DOMAIN x.m \ DeclaredKeys[level]} ELSE {}

\* The locations of the keys of the record that its level does not declare.
UndeclaredKeys ==
    UndeclaredIn(record, <<>>, "manifest")
    \cup (IF Has(record, "git") THEN UndeclaredIn(record.m["git"], <<"git">>, "git") ELSE {})
    \cup (IF Has(record, "metadata")
          THEN UndeclaredIn(record.m["metadata"], <<"metadata">>, "metadata") ELSE {})
    \cup (IF Has(record, "build")
          THEN UndeclaredIn(record.m["build"], <<"build">>, "build")
               \cup (IF Has(record.m["build"], "test")
                     THEN UndeclaredIn(record.m["build"].m["test"], <<"build", "test">>, "test")
                     ELSE {})
          ELSE {})
    \cup (IF Has(record, "maintainers") /\ record.m["maintainers"].t = "list"
          THEN UNION {UndeclaredIn(record.m["maintainers"].l[i], <<"maintainers", Idx(i)>>,
                                   "maintainer") : i \in 1..Len(record.m["maintainers"].l)}
          ELSE {})

\* C2: a record with an undeclared key at any level fails validation, with
\* an extra_forbidden error at each such key.
C2_UnknownFieldRejected ==
    Validated => \A loc \in UndeclaredKeys : Failed(loc, "extra_forbidden")

\* The locations of the enumerated values of the record outside their domain.
OutsideEnum ==
    IF ~Has(record, "build") THEN {}
    ELSE LET b == record.m["build"]
         IN  (IF Has(b, "builder") /\ b.m["builder"].t = "str"
                    /\ b.m["builder"].v \notin {"buildkit", "classic", "oci-import"}
              THEN {<<"build", "builder">>} ELSE {})
             \cup (IF Has(b, "platforms") /\ b.m["platforms"].t = "list"
                   THEN {<<"build", "platforms", Idx(i)>> : i \in
                            {j \in 1..Len(b.m["platforms"].l) :
                                b.m["platforms"].l[j].t = "str"
                                /\ b.m["platforms"].l[j].v \notin
                                      {"amd64", "arm32v5", "arm32v6", "arm32v7", "arm64v8",
                                       "windows-amd64"}}}
                   ELSE {})

\* C3: a builder outside {buildkit, classic, oci-import}, or a platforms
\* entry outside the architectures, fails validation with an enum error at
\* that value.
C3_EnumViolationRejected ==
    Validated => \A loc \in OutsideEnum : Failed(loc, "enum")

\* The locations of the lists of the record declared non-empty that are empty.
EmptyLists ==
    (IF Has(record, "maintainers") /\ record.m["maintainers"] = Lst(<<>>)
     THEN {<<"maintainers">>} ELSE {})
    \cup (IF Has(record, "build") /\ Has(record.m["build"], "tags")
             /\ record.m["build"].m["tags"] = Lst(<<>>)
          THEN {<<"build", "tags">>} ELSE {})

\* C4: an empty maintainers or build.tags list fails validation with a
\* too_short error on that field; a Manifest has neither list empty.
C4_EmptyCollectionRejected ==
    /\ Validated => \A loc \in EmptyLists : Failed(loc, "too_short")
    /\ result.kind = "manifest" =>
          /\ result.value.f["maintainers"] # Lst(<<>>)
          /\ result.value.f["build"].f["tags"] # Lst(<<>>)

MissingIn(x, loc, required) ==
    IF x.t = "map" THEN {loc \o <<k>> : k \in required \ DOMAIN x.m} ELSE {}

\* The locations of the required fields the record omits.
MissingRequired ==
    MissingIn(record, <<>>, {"name", "maintainers", "git", "build", "metadata"})
    \cup (IF Has(record, "git") THEN MissingIn(record.m["git"], <<"git">>, {"repo"}) ELSE {})
    \cup (IF Has(record, "build") THEN MissingIn(record.m["build"], <<"build">>, {"tags"})
          ELSE {})
    \cup (IF Has(record, "metadata")
          THEN MissingIn(record.m["metadata"], <<"metadata">>, {"identifier", "project"})
          ELSE {})
    \cup (IF Has(record, "maintainers") /\ record.m["maintainers"].t = "list"
          THEN UNION {MissingIn(record.m["maintainers"].l[i], <<"maintainers", Idx(i)>>,
                                {"name", "email"}) : i \in 1..Len(record.m["maintainers"].l)}
          ELSE {})

\* C5: a record that omits a required field gives a failure with a missing
\* error at that field, and no Manifest.
C5_MissingFieldReported ==
    Validated => \A loc \in MissingRequired :
                     Failed(loc, "missing") /\ result.value = Null /\ manifest = Null

\* The validated value of a supplied value: the value itself, with a
\* number or numeric string of version read as a float.
SuppliedAs(raw, val) ==
    \/ PyEq(val, raw)
    \/ raw.t \in {"int", "str"} /\ val.t = "float"
         /\ <<raw.v, val.v>> \in {<<"1", "1.0">>, <<"0.3", "0.3">>}

\* A field of the Manifest holds the supplied value if the record has the
\* key, else the default.
DefaultOrSupplied(x, key, val, default) ==
    IF Has(x, key) THEN SuppliedAs(x.m[key], val) ELSE PyEq(val, default)

\* C6: in the Manifest of a valid record each omitted optional field with a
\* declared default holds that default, and each supplied one the value
\* supplied.
C6_DefaultsApplied ==
    result.kind = "manifest" =>
        LET b == record.m["build"]
            vb == result.value.f["build"].f
        IN  /\ DefaultOrSupplied(b, "path", vb["path"], Str("."))
            /\ DefaultOrSupplied(b, "dockerfile", vb["dockerfile"], Str("Dockerfile"))
            /\ DefaultOrSupplied(b, "context", vb["context"], Str("."))
            /\ DefaultOrSupplied(b, "builder", vb["builder"], Str("buildkit"))
            /\ DefaultOrSupplied(b, "platforms", vb["platforms"], Lst(<<Str("amd64")>>))
            /\ DefaultOrSupplied(record.m["git"], "fetch", result.value.f["git"].f["fetch"],
                                 Str("refs/heads/main"))
            /\ DefaultOrSupplied(record, "version", result.value.f["version"], Flt("0.2"))

C6_Witness ==
    /\ pc = "validated"
    /\ result.kind = "manifest"
    /\ DOMAIN record.m["build"].m = {"tags", "dockerfile"}
    /\ ~Has(record.m["git"], "fetch")
    /\ ~Has(record, "version")
    /\ result.value.f["build"].f["dockerfile"] = Str("Dockerfile-alternate")
    /\ result.value.f["build"].f["path"] = Str(".")
    /\ result.value.f["git"].f["fetch"] = Str("refs/heads/main")
    /\ result.value.f["version"] = Flt("0.2")

\* C7: dumping the Manifest that validation returned, every field written
\* out, and validating the dump gives a Manifest equal to it.
C7_RevalidationIdempotent ==
    (pc = "revalidated" /\ manifest = result.value) =>
        reparsed.kind = "manifest" /\ PyEq(reparsed.value, result.value)

C7_Witness ==
    /\ pc = "revalidated"
    /\ manifest = result.value
    /\ reparsed.kind = "manifest"
    /\ manifest.f["git"].f["sha"] = Null
    /\ manifest.f["git"].f["repo"] = Url("https://example.com/")
    /\ manifest.f["build"].f["builder"] = Enm("buildkit")
    /\ manifest.f["build"].f["test"] = Null
    /\ Has(record, "owner")

\* C8: the Manifest, however its attributes have been assigned since it was
\* validated, has exactly one of sha and tag in its git record.
C8_ManifestStaysValid ==
    manifest.t = "model" =>
        (manifest.f["git"].f["sha"].t = "null") # (manifest.f["git"].f["tag"].t = "null")

\* The sha and tag of the git record that are present and not of type str.
WronglyTyped ==
    IF Has(record, "git") /\ record.m["git"].t = "map"
    THEN {k \in {"sha", "tag"} \cap DOMAIN record.m["git"].m :
              record.m["git"].m[k].t \notin {"str", "null"}}
    ELSE {}

\* C9: a sha or tag of the wrong type is reported as a string_type error
\* on that field, whether or not the sha/tag rule is violated as well.
C9_TypeCheckedBeforeCrossField ==
    Validated => \A k \in WronglyTyped : Failed(<<"git", k>>, "string_type")

\* C10: validation ends with a Manifest or with a validation failure; a
\* git value that is present and no mapping gives a failure at git.
C10_OnlyManifestOrFailure ==
    Validated =>
        /\ result.kind \in {"manifest", "failure"}
        /\ (Has(record, "git") /\ record.m["git"].t # "map") => Failed(<<"git">>, "model_type")

====
